---- MODULE Spec2Model ----
(***************************************************************************)
(* Model of the sales data-warehouse pipeline:                             *)
(*   etl_script.py  run_etl              raw extracts -> four warehouse    *)
(*                                       CSV files                         *)
(*   dashboard.py   load_and_merge_data  warehouse files -> cube (cached)  *)
(*   dashboard.py   main                 filter step over the cube         *)
(*                                                                         *)
(* A CSV cell is a text: a sequence of tokens (a token is one character    *)
(* such as the quote or the blank, or one word).  A DataFrame cell is a    *)
(* record [k, s, n], k its kind ("nan", "str", "int", "float", "date"),    *)
(* s the text of a string cell, n the value of a number or of a date       *)
(* (yyyymmdd).  A DataFrame is the sequence of its rows, a row a record    *)
(* from column names to cells.                                             *)
(***************************************************************************)
EXTENDS Integers, Sequences, FiniteSets, TLC

\* ------------------------------------------------------------------ bounds
\* Total number of rows over the three input extracts drawn by Init.
MaxRows == 3
\* Number of run_etl executions in the interleaved specification.
MaxRuns == 2

\* ------------------------------------------------------------------ texts
Q  == "\""
SP == " "

\* Decimal texts and the numbers they denote: the numbers of the extracts and
\* the years, months, days and quarters of their dates.
Numerals ==
    { <<"1", 1>>, <<"2", 2>>, <<"3", 3>>, <<"4", 4>>, <<"5", 5>>, <<"8", 8>>,
      <<"9", 9>>, <<"10", 10>>, <<"20", 20>>, <<"1970", 1970>>,
      <<"2023", 2023>>, <<"2024", 2024>> }

NumText == [d \in {p[1] : p \in Numerals} |-> (CHOOSE p \in Numerals : p[1] = d)[2]]

\* Date texts (ISO) and the dates they denote, as yyyymmdd.
Dates ==
    { <<"1970-01-01", 19700101>>, <<"2023-01-05", 20230105>>,
      <<"2023-08-20", 20230820>>, <<"2024-04-10", 20240410>> }

DateText == [d \in {p[1] : p \in Dates} |-> (CHOOSE p \in Dates : p[1] = d)[2]]

\* The texts pandas' read_csv reads as a missing value (its default na_values).
NaTexts == {<<>>, <<"nan">>, <<"NaN">>, <<"NA">>, <<"NULL">>, <<"null">>, <<"None">>}

IsNaText(t) == t \in NaTexts

\* "1" and "1.0" are numeric texts; anything else is not.
IsNumText(t) ==
    \/ Len(t) = 1 /\ t[1] \in DOMAIN NumText
    \/ Len(t) = 2 /\ t[1] \in DOMAIN NumText /\ t[2] = ".0"

IsFloatText(t) == Len(t) = 2

ParseNum(t) == NumText[t[1]]

IsDateText(t) == Len(t) = 1 /\ t[1] \in DOMAIN DateText

\* ------------------------------------------------------------------ cells
NaN      == [k |-> "nan",   s |-> <<>>, n |-> 0]
Str(t)   == [k |-> "str",   s |-> t,    n |-> 0]
Int64(n) == [k |-> "int",   s |-> <<>>, n |-> n]
Float(n) == [k |-> "float", s |-> <<>>, n |-> n]
Date(n)  == [k |-> "date",  s |-> <<>>, n |-> n]

IsNull(c) == c.k = "nan"
IsNum(c)  == c.k \in {"int", "float"}

\* The frame (or the column) that holds the rows (the cells) f[1], f[2], ...: the
\* function f as a sequence whose elements are computed once.
DataFrame(f) == <<>> \o f

\* Column c of DataFrame df, as the sequence of its cells.
Col(df, c) == DataFrame([i \in DOMAIN df |-> df[i][c]])

\* ------------------------------------------------------------------ files
\* A file of the working directory: absent, or the sequence of its data rows
\* (a row maps column names to texts).  run is the number of the run_etl
\* execution that wrote the file (0 for an input extract).
Absent == [present |-> FALSE, rows |-> <<>>, run |-> 0]
File(rows, run) == [present |-> TRUE, rows |-> rows, run |-> run]

ClientCols  == {"client_id", "nom", "ville", "pays", "segment"}
ProduitCols == {"produit_id", "nom_produit", "categorie", "prix"}
VenteCols   == {"vente_id", "client_id", "produit_id", "date", "quantite", "montant"}
TempsCols   == {"date", "annee", "mois", "jour", "trimestre"}

\* pd.read_csv: a missing-value text is NaN; a column whose other texts are all
\* numeric is a numeric column (float64 when it holds a NaN or a decimal point);
\* any other column keeps its texts as strings (dtype object).
NumericColumn(rows, c) ==
    \A i \in DOMAIN rows : IsNaText(rows[i][c]) \/ IsNumText(rows[i][c])

FloatColumn(rows, c) ==
    \E i \in DOMAIN rows : IsNaText(rows[i][c]) \/ IsFloatText(rows[i][c])

ReadCell(rows, c, t) ==
    IF IsNaText(t) THEN NaN
    ELSE IF NumericColumn(rows, c)
         THEN (IF FloatColumn(rows, c) THEN Float(ParseNum(t)) ELSE Int64(ParseNum(t)))
         ELSE Str(t)

read_csv(rows, cols) ==
    DataFrame([i \in DOMAIN rows |-> [c \in cols |-> ReadCell(rows, c, rows[i][c])]])

\* DataFrame.to_csv(index=False): NaN is the empty text, a string its text, an
\* integer its digits, a float its digits and ".0", a midnight date its ISO text.
NumToken(n)  == CHOOSE d \in DOMAIN NumText : NumText[d] = n
DateToken(n) == CHOOSE d \in DOMAIN DateText : DateText[d] = n

WriteCell(c) ==
    CASE c.k = "nan"   -> <<>>
      [] c.k = "str"   -> c.s
      [] c.k = "int"   -> <<NumToken(c.n)>>
      [] c.k = "float" -> <<NumToken(c.n), ".0">>
      [] c.k = "date"  -> <<DateToken(c.n)>>

to_csv(df, cols) ==
    DataFrame([i \in DOMAIN df |-> [c \in cols |-> WriteCell(df[i][c])]])

\* ------------------------------------------------------- sequence helpers
\* The rows of df whose index is in S, in df's order.
Pick(df, S) ==
    LET F[i \in 0..Len(df)] ==
            IF i = 0 THEN <<>>
            ELSE IF i \in S THEN Append(F[i - 1], df[i]) ELSE F[i - 1]
    IN  F[Len(df)]

\* ------------------------------------------------------ etl_script.py
\* str.replace('"', ''): every quote character goes, wherever it stands.
RemoveQuotes(t) == SelectSeq(t, LAMBDA x : x # Q)

\* str.strip(): leading and trailing blanks go.
RECURSIVE LStrip(_)
LStrip(t) == IF t # <<>> /\ Head(t) = SP THEN LStrip(Tail(t)) ELSE t

RECURSIVE RStrip(_)
RStrip(t) ==
    IF t # <<>> /\ t[Len(t)] = SP THEN RStrip(SubSeq(t, 1, Len(t) - 1)) ELSE t

Strip(t) == RStrip(LStrip(t))

\* select_dtypes(include=['object']): the columns that hold strings.
ObjectColumn(df, c) == \E i \in DOMAIN df : df[i][c].k = "str"

\* astype(str).str.replace('"', '').str.strip() on one cell of an object column:
\* astype(str) turns a NaN into the string 'nan'.
CleanCell(c) ==
    IF c.k = "str" THEN Str(Strip(RemoveQuotes(c.s))) ELSE Str(<<"nan">>)

clean_quotes(df, cols) ==
    DataFrame([i \in DOMAIN df |->
        [c \in cols |-> IF ObjectColumn(df, c) THEN CleanCell(df[i][c]) ELSE df[i][c]]])

\* pd.to_numeric (errors='raise'): the empty string and 'nan' become NaN, a
\* numeric text its number, any other string raises ValueError.
NumericNa(t) == t \in {<<>>, <<"nan">>, <<"NaN">>}

NumericRaises(c) == c.k = "str" /\ ~NumericNa(c.s) /\ ~IsNumText(c.s)

to_numeric_raises(df, c) == \E i \in DOMAIN df : NumericRaises(df[i][c])

NumericIsFloat(df, c) ==
    \E i \in DOMAIN df :
        \/ df[i][c].k \in {"nan", "float"}
        \/ df[i][c].k = "str" /\ (~IsNumText(df[i][c].s) \/ IsFloatText(df[i][c].s))

\* The cell to_numeric makes of a cell it does not raise on; float says that
\* the column becomes float64.
NumericCell(c, float) ==
    CASE c.k = "str" /\ IsNumText(c.s) ->
            (IF float THEN Float(ParseNum(c.s)) ELSE Int64(ParseNum(c.s)))
      [] c.k = "str" /\ ~IsNumText(c.s) -> NaN
      [] c.k = "int" -> (IF float THEN Float(c.n) ELSE c)
      [] OTHER -> c

\* df[c] = pd.to_numeric(df[c]), when it does not raise.
to_numeric(df, c) ==
    DataFrame([i \in DOMAIN df |->
        [df[i] EXCEPT ![c] = NumericCell(df[i][c], NumericIsFloat(df, c))]])

\* The columns run_etl converts, per extract.
ClientNumeric  == {"client_id"}
ProduitNumeric == {"produit_id", "prix"}
VenteNumeric   == {"vente_id", "client_id", "produit_id", "quantite", "montant"}

RECURSIVE to_numeric_all(_, _)
to_numeric_all(df, cols) ==
    IF cols = {} THEN df
    ELSE LET c == CHOOSE x \in cols : TRUE
         IN  to_numeric_all(to_numeric(df, c), cols \ {c})

\* pd.to_datetime(errors='coerce') on one cell: a date text is its date, any
\* other string and NaN are NaT; an integer counts nanoseconds from the epoch.
DatetimeCell(c) ==
    CASE c.k = "str" /\ IsDateText(c.s) -> Date(DateText[c.s[1]])
      [] c.k = "date" -> c
      [] IsNum(c) -> Date(19700101)
      [] OTHER -> NaN

to_datetime(df, c) ==
    DataFrame([i \in DOMAIN df |-> [df[i] EXCEPT ![c] = DatetimeCell(df[i][c])]])

\* DataFrame.dropna(subset=cols): the rows with no missing cell in cols.
dropna(df, cols) ==
    Pick(df, {i \in DOMAIN df : \A c \in cols : ~IsNull(df[i][c])})

\* A mapping that lacks the "United States" entry.
country_mapping_short(t) ==
    IF t \in {<<"États-Unis">>, <<"US">>} THEN <<"USA">> ELSE t

\* country_mapping and Series.replace: an exact match is replaced.
country_mapping(t) ==
    IF t \in {<<"États-Unis">>, <<"United States">>, <<"US">>} THEN <<"USA">> ELSE t

replace_pays(df) ==
    DataFrame([i \in DOMAIN df |->
        [df[i] EXCEPT !["pays"] =
            IF @.k = "str" THEN Str(country_mapping(@.s)) ELSE @]])

\* No row is dropped.
drop_duplicates_none(df) == df

\* DataFrame.drop_duplicates(): of equal rows the first is kept.
drop_duplicates(df) ==
    Pick(df, {i \in DOMAIN df : \A j \in 1..(i - 1) : df[j] # df[i]})

\* Series.unique(): the distinct cells in order of first appearance.
unique(col) ==
    Pick(col, {i \in DOMAIN col : \A j \in 1..(i - 1) : col[j] # col[i]})

\* DataFrame.sort_values('date') on a frame of date cells.
sort_values(df) ==
    LET rank(i) == Cardinality({j \in DOMAIN df :
                        \/ df[j]["date"].n < df[i]["date"].n
                        \/ df[j]["date"].n = df[i]["date"].n /\ j < i}) + 1
    IN  DataFrame([r \in DOMAIN df |-> df[CHOOSE i \in DOMAIN df : rank(i) = r]])

\* .dt.year, .dt.month, .dt.day, .dt.quarter
Year(d)    == d \div 10000
Month(d)   == (d \div 100) % 100
Day(d)     == d % 100
Quarter(d) == ((Month(d) - 1) \div 3) + 1

TempsRow(c) ==
    [date |-> c, annee |-> Int64(Year(c.n)), mois |-> Int64(Month(c.n)),
     jour |-> Int64(Day(c.n)), trimestre |-> Int64(Quarter(c.n))]

build_dim_temps(ventes_df) ==
    LET dates_uniques == unique(Col(ventes_df, "date"))
    IN  sort_values(DataFrame([i \in DOMAIN dates_uniques |-> TempsRow(dates_uniques[i])]))

\* Only the first file's absence raises.
FileNotFoundFirst(clients, produits, ventes) == ~clients.present

\* Lines 15-17: one of the three read_csv calls raises FileNotFoundError.
FileNotFound(clients, produits, ventes) ==
    ~(clients.present /\ produits.present /\ ventes.present)

\* Lines 15-47 of run_etl: the three reads, the cleaning and the conversions.
\* ok is FALSE when an exception reaches the except clause: a file is absent
\* (FileNotFoundError) or a numeric conversion raises (ValueError).
Extract(clients, produits, ventes) ==
    IF FileNotFound(clients, produits, ventes)
    THEN [ok |-> FALSE, clients_df |-> <<>>, produits_df |-> <<>>, ventes_df |-> <<>>]
    ELSE
    LET c0 == clean_quotes(read_csv(clients.rows, ClientCols), ClientCols)
        p0 == clean_quotes(read_csv(produits.rows, ProduitCols), ProduitCols)
        v0 == clean_quotes(read_csv(ventes.rows, VenteCols), VenteCols)
        raises == \/ \E c \in ClientNumeric  : to_numeric_raises(c0, c)
                  \/ \E c \in ProduitNumeric : to_numeric_raises(p0, c)
                  \/ \E c \in VenteNumeric   : to_numeric_raises(v0, c)
    IN  IF raises
        THEN [ok |-> FALSE, clients_df |-> <<>>, produits_df |-> <<>>, ventes_df |-> <<>>]
        ELSE [ok |-> TRUE,
              clients_df  |-> to_numeric_all(c0, ClientNumeric),
              produits_df |-> to_numeric_all(p0, ProduitNumeric),
              ventes_df   |-> dropna(to_datetime(to_numeric_all(v0, VenteNumeric), "date"),
                                     {"date"})]

\* Lines 58-102 of run_etl: dropna, country standardisation, drop_duplicates and
\* the four tables of the star schema.
Transform(x) ==
    LET clients_df  == drop_duplicates(replace_pays(dropna(x.clients_df, ClientCols)))
        produits_df == drop_duplicates(dropna(x.produits_df, ProduitCols))
        ventes_df   == drop_duplicates(dropna(x.ventes_df, VenteCols))
    IN  [dim_clients  |-> clients_df,
         dim_produits |-> produits_df,
         dim_temps    |-> build_dim_temps(ventes_df),
         fact_ventes  |-> ventes_df]

\* The four files run_etl writes, in the order it writes them.
WarehouseFiles == <<"Dim_Clients", "Dim_Produits", "Dim_Temps", "Fact_Ventes">>

\* What lines 106-109 write into each file, for the tables t.
Export(t) ==
    [Dim_Clients  |-> to_csv(t.dim_clients, ClientCols),
     Dim_Produits |-> to_csv(t.dim_produits, ProduitCols),
     Dim_Temps    |-> to_csv(t.dim_temps, TempsCols),
     Fact_Ventes  |-> to_csv(t.fact_ventes, VenteCols)]

\* ------------------------------------------------------ dashboard.py
\* pd.to_datetime (errors='raise'), lines 27-28: a string that is no date raises.
DatetimeRaises(c) == c.k = "str" /\ ~IsDateText(c.s)

to_datetime_raises(df, c) == \E i \in DOMAIN df : DatetimeRaises(df[i][c])

\* Two join keys match when they hold the same number or the same date (an
\* int64 key matches the equal float64 key); pandas also matches NaN with NaN.
KeyEq(a, b) ==
    \/ IsNull(a) /\ IsNull(b)
    \/ IsNum(a) /\ IsNum(b) /\ a.n = b.n
    \/ a.k = "date" /\ b.k = "date" /\ a.n = b.n

\* The rows pd.merge(how='left') makes of one left row: one per matching right
\* row, in the right frame's order, or one with NaN in the right columns.
MergeRow(l, right, key, rcols) ==
    LET m     == {j \in DOMAIN right : KeyEq(l[key], right[j][key])}
        other == rcols \ {key}
        hits  == Pick(right, m)
    IN  IF m = {} THEN << l @@ [c \in other |-> NaN] >>
        ELSE DataFrame([h \in DOMAIN hits |-> l @@ [c \in other |-> hits[h][c]]])

\* pd.merge(left, right, on=key, how='left'): left order is kept.
merge(left, right, key, rcols) ==
    LET F[i \in 0..Len(left)] ==
            IF i = 0 THEN <<>> ELSE F[i - 1] \o MergeRow(left[i], right, key, rcols)
    IN  F[Len(left)]

\* What load_and_merge_data returns (or that it raises), and what main holds
\* in df before its first call.
None       == [kind |-> "none",  rows |-> <<>>]
Raised     == [kind |-> "raise", rows |-> <<>>]
Unset      == [kind |-> "unset", rows |-> <<>>]
Cube(rows) == [kind |-> "cube",  rows |-> rows]

\* Lines 19-38 of load_and_merge_data, on the rows read from the four files.
merge_data(r) ==
    LET c0 == read_csv(r.Dim_Clients, ClientCols)
        p0 == read_csv(r.Dim_Produits, ProduitCols)
        t0 == read_csv(r.Dim_Temps, TempsCols)
        f0 == read_csv(r.Fact_Ventes, VenteCols)
        raises == \/ to_numeric_raises(f0, "client_id")
                  \/ to_numeric_raises(f0, "produit_id")
                  \/ to_numeric_raises(c0, "client_id")
                  \/ to_numeric_raises(p0, "produit_id")
                  \/ to_datetime_raises(f0, "date")
                  \/ to_datetime_raises(t0, "date")
    IN  IF raises THEN Raised
        ELSE
        LET fact_ventes  == to_datetime(to_numeric_all(f0, {"client_id", "produit_id"}), "date")
            dim_clients  == to_numeric(c0, "client_id")
            dim_produits == to_numeric(p0, "produit_id")
            dim_temps    == to_datetime(t0, "date")
            cube1 == merge(fact_ventes, dim_clients, "client_id", ClientCols)
            cube2 == merge(cube1, dim_produits, "produit_id", ProduitCols)
        IN  Cube(merge(cube2, dim_temps, "date", TempsCols))

\* Lines 10-38 in one piece: the four reads (FileNotFoundError: None) and the merge.
load_uncached(wh) ==
    IF \E f \in DOMAIN wh : ~wh[f].present THEN None
    ELSE merge_data([f \in DOMAIN wh |-> wh[f].rows])

\* sorted(df[c].dropna().unique()), lines 53, 57 and 62, as the set of the
\* values listed: the years as numbers, the countries and categories as texts.
annees_dispo(rows) ==
    {rows[i]["annee"].n : i \in {j \in DOMAIN rows : ~IsNull(rows[j]["annee"])}}

pays_dispo(rows) ==
    {WriteCell(rows[i]["pays"]) : i \in {j \in DOMAIN rows : ~IsNull(rows[j]["pays"])}}

categories_dispo(rows) ==
    {WriteCell(rows[i]["categorie"]) :
        i \in {j \in DOMAIN rows : ~IsNull(rows[j]["categorie"])}}

\* Series.isin(values) on one cell: a NaN is in no list of non-missing values.
IsinYear(c, selected) == IsNum(c) /\ c.n \in selected
IsinText(c, selected) == c.k = "str" /\ c.s \in selected

\* Lines 66-70: the rows that pass the three filters.
apply_filters(rows, sel) ==
    Pick(rows, {i \in DOMAIN rows :
                    /\ IsinYear(rows[i]["annee"], sel.year)
                    /\ IsinText(rows[i]["pays"], sel.country)
                    /\ IsinText(rows[i]["categorie"], sel.category)})

\* What the three multiselect widgets may hold: any selection of the options.
Selections(rows) ==
    [year     : SUBSET annees_dispo(rows),
     country  : SUBSET pays_dispo(rows),
     category : SUBSET categories_dispo(rows)]

NoSelection == [year |-> {}, country |-> {}, category |-> {}]

\* ------------------------------------------------------------ input data
\* A field the way the extracts hold it: between quotes.
Quoted(w) == <<Q, w, Q>>

ClientRow(id, nom, pays) ==
    [client_id |-> id, nom |-> nom, ville |-> Quoted("Paris"), pays |-> pays,
     segment |-> Quoted("Pro")]

\* Lines of Clients.csv: two clients with the same client_id, the three alias
\* spellings (one with blanks around it), a missing country.
ClientRows ==
    { ClientRow(Quoted("1"), Quoted("Alice"), Quoted("France")),
      ClientRow(Quoted("1"), Quoted("Bob"),   <<Q, SP, "US", SP, Q>>),
      ClientRow(Quoted("2"), Quoted("Chloe"), Quoted("États-Unis")),
      ClientRow(Quoted("2"), Quoted("Chloe"), Quoted("United States")),
      ClientRow(Quoted("3"), Quoted("David"), <<>>) }

ProduitRow(id, nom, categorie, prix) ==
    [produit_id |-> id, nom_produit |-> nom, categorie |-> categorie, prix |-> prix]

\* Lines of Produits.csv: two products with the same produit_id, an
\* unparseable price.
ProduitRows ==
    { ProduitRow(Quoted("1"), Quoted("Stylo"),  Quoted("Bureau"), Quoted("10")),
      ProduitRow(Quoted("1"), Quoted("Crayon"), Quoted("Bureau"), Quoted("10")),
      ProduitRow(Quoted("2"), Quoted("Lampe"),  Quoted("Maison"), Quoted("abc")) }

VenteRow(id, client, produit, date, quantite, montant) ==
    [vente_id |-> id, client_id |-> client, produit_id |-> produit, date |-> date,
     quantite |-> quantite, montant |-> montant]

\* Lines of Ventes.csv: sales of two years, an unparseable date, a missing
\* amount.
VenteRows ==
    { VenteRow(Quoted("1"), Quoted("1"), Quoted("1"), Quoted("2023-01-05"),
               Quoted("1"), Quoted("10")),
      VenteRow(Quoted("2"), Quoted("2"), Quoted("2"), Quoted("2024-04-10"),
               Quoted("2"), Quoted("20")),
      VenteRow(Quoted("9"), Quoted("1"), Quoted("2"), Quoted("13/13/2023"),
               Quoted("2"), Quoted("20")),
      VenteRow(Quoted("10"), Quoted("2"), Quoted("1"), Quoted("2023-01-05"),
               Quoted("1"), <<>>) }

\* The sequences of at most n elements of S.
SeqUpTo(S, n) == UNION {[1..k -> S] : k \in 0..n}

Extracts(c, p, v) == [Clients |-> c, Produits |-> p, Ventes |-> v]

\* ------------------------------------------------------------------ state
VARIABLES
    extracts,     \* Clients.csv, Produits.csv, Ventes.csv
    warehouse,    \* Dim_Clients.csv, Dim_Produits.csv, Dim_Temps.csv, Fact_Ventes.csv
    etl_pc,       \* run_etl: 0 not running, i the next file of WarehouseFiles to write
    etl_tables,   \* run_etl: the four tables it holds, as it will write them
    etl_run,      \* the number of run_etl executions started
    etl_msg,      \* what the last run_etl printed last: "none", "error", "ok"
    dash_pc,      \* load_and_merge_data: 0 not running, i the next file to read, 5 merging
    dash_read,    \* load_and_merge_data: the files read so far
    cache,        \* st.cache_data's entry for load_and_merge_data
    df,           \* main: what load_and_merge_data returned last
    selected,     \* main: selected_year, selected_country, selected_category
    filtered_df   \* main: the filtered rows

vars == <<extracts, warehouse, etl_pc, etl_tables, etl_run, etl_msg,
          dash_pc, dash_read, cache, df, selected, filtered_df>>

etl_vars  == <<etl_pc, etl_tables, etl_run, etl_msg>>
dash_vars == <<dash_pc, dash_read, cache, df, selected, filtered_df>>

NoFiles  == [f \in {"Dim_Clients", "Dim_Produits", "Dim_Temps", "Fact_Ventes"} |-> Absent]
NoTables == [f \in {"Dim_Clients", "Dim_Produits", "Dim_Temps", "Fact_Ventes"} |-> <<>>]
NoEntry  == [full |-> FALSE, value |-> Unset]

\* The working directory holds the extracts and no warehouse file; neither
\* program has run.
InitRest ==
    /\ warehouse = NoFiles
    /\ etl_pc = 0
    /\ etl_tables = NoTables
    /\ etl_run = 0
    /\ etl_msg = "none"
    /\ dash_pc = 0
    /\ dash_read = NoFiles
    /\ cache = NoEntry
    /\ df = Unset
    /\ selected = NoSelection
    /\ filtered_df = <<>>

Init ==
    /\ \E c \in SeqUpTo(ClientRows, MaxRows) :
         \E p \in SeqUpTo(ProduitRows, MaxRows - Len(c)) :
           \E v \in SeqUpTo(VenteRows, MaxRows - Len(c) - Len(p)) :
             extracts = Extracts(File(c, 0), File(p, 0), File(v, 0))
    /\ InitRest

\* --------------------------------------------------------------- run_etl
\* The tables one run_etl execution holds at line 104, as it will write them.
EtlResult(x) ==
    LET e == Extract(x.Clients, x.Produits, x.Ventes)
    IN  IF e.ok THEN [ok |-> TRUE, tables |-> Export(Transform(e))]
        ELSE [ok |-> FALSE, tables |-> NoTables]

\* run_etl as one step (the batch run of the pipeline): on an exception it
\* prints the error and returns; otherwise it writes the four files.
RunEtl ==
    /\ etl_pc = 0
    /\ etl_run = 0
    /\ LET r == EtlResult(extracts)
       IN  /\ etl_msg' = IF r.ok THEN "ok" ELSE "error"
           /\ warehouse' = IF r.ok
                           THEN [f \in DOMAIN warehouse |-> File(r.tables[f], etl_run + 1)]
                           ELSE warehouse
    /\ etl_run' = etl_run + 1
    /\ UNCHANGED <<extracts, etl_pc, etl_tables>>
    /\ UNCHANGED dash_vars

\* run_etl up to line 104: the reads and the transformation, in memory.
EtlStart ==
    /\ etl_pc = 0
    /\ etl_run < MaxRuns
    /\ LET r == EtlResult(extracts)
       IN  /\ etl_msg' = IF r.ok THEN "none" ELSE "error"
           /\ etl_pc' = IF r.ok THEN 1 ELSE 0
           /\ etl_tables' = r.tables
    /\ etl_run' = etl_run + 1
    /\ UNCHANGED <<extracts, warehouse>>
    /\ UNCHANGED dash_vars

\* One of the four to_csv calls of lines 106-109; after the last, line 111.
EtlWrite ==
    /\ etl_pc \in 1..4
    /\ warehouse' = [warehouse EXCEPT ![WarehouseFiles[etl_pc]] =
                        File(etl_tables[WarehouseFiles[etl_pc]], etl_run)]
    /\ etl_pc' = IF etl_pc = 4 THEN 0 ELSE etl_pc + 1
    /\ etl_msg' = IF etl_pc = 4 THEN "ok" ELSE etl_msg
    /\ UNCHANGED <<extracts, etl_tables, etl_run>>
    /\ UNCHANGED dash_vars

\* ------------------------------------------------------------------ main
\* main from line 46 on, once load_and_merge_data has returned value: the
\* widgets hold a selection and the filters are applied.  st.cache_data stores
\* what the function returned (None included); an exception is not stored.
MainWith(value, stored) ==
    /\ cache' = IF stored THEN [full |-> TRUE, value |-> value] ELSE cache
    /\ df' = value
    /\ IF value.kind = "cube"
       THEN \E sel \in Selections(value.rows) :
                /\ selected' = sel
                /\ filtered_df' = apply_filters(value.rows, sel)
       ELSE /\ selected' = NoSelection
            /\ filtered_df' = <<>>

\* main as one step: a cached value is returned as it is, otherwise the
\* function body runs on the files as they are.
Main ==
    /\ dash_pc = 0
    /\ LET value == IF cache.full THEN cache.value ELSE load_uncached(warehouse)
       IN  MainWith(value, value.kind # "raise")
    /\ UNCHANGED <<extracts, warehouse, dash_pc, dash_read>>
    /\ UNCHANGED etl_vars

\* main calls load_and_merge_data and st.cache_data holds an entry.
MainHit ==
    /\ dash_pc = 0
    /\ cache.full
    /\ MainWith(cache.value, TRUE)
    /\ UNCHANGED <<extracts, warehouse, dash_pc, dash_read>>
    /\ UNCHANGED etl_vars

\* main calls load_and_merge_data and the function body starts.
MainMiss ==
    /\ dash_pc = 0
    /\ ~cache.full
    /\ dash_pc' = 1
    /\ dash_read' = NoFiles
    /\ UNCHANGED <<extracts, warehouse, cache, df, selected, filtered_df>>
    /\ UNCHANGED etl_vars

\* One of the four read_csv calls of lines 11-14; FileNotFoundError returns None.
DashRead ==
    /\ dash_pc \in 1..4
    /\ IF warehouse[WarehouseFiles[dash_pc]].present
       THEN /\ dash_read' = [dash_read EXCEPT ![WarehouseFiles[dash_pc]] =
                                warehouse[WarehouseFiles[dash_pc]]]
            /\ dash_pc' = dash_pc + 1
            /\ UNCHANGED <<cache, df, selected, filtered_df>>
       ELSE /\ dash_pc' = 0
            /\ dash_read' = NoFiles
            /\ MainWith(None, TRUE)
    /\ UNCHANGED <<extracts, warehouse>>
    /\ UNCHANGED etl_vars

\* Lines 19-38 on the four frames read, the return, and the rest of main.
DashMerge ==
    /\ dash_pc = 5
    /\ LET value == merge_data([f \in DOMAIN dash_read |-> dash_read[f].rows])
       IN  MainWith(value, value.kind # "raise")
    /\ dash_pc' = 0
    /\ UNCHANGED <<extracts, warehouse, dash_read>>
    /\ UNCHANGED etl_vars

\* ----------------------------------------------------------- environment
\* The extracts somebody may put into the working directory between two runs.
SmallExtracts ==
    LET c1 == ClientRow(Quoted("1"), Quoted("Alice"), Quoted("France"))
        c2 == ClientRow(Quoted("2"), Quoted("Chloe"), Quoted("États-Unis"))
        p1 == ProduitRow(Quoted("1"), Quoted("Stylo"), Quoted("Bureau"), Quoted("10"))
        v1 == VenteRow(Quoted("1"), Quoted("1"), Quoted("1"), Quoted("2023-01-05"),
                       Quoted("1"), Quoted("10"))
        v2 == VenteRow(Quoted("2"), Quoted("2"), Quoted("1"), Quoted("2023-01-05"),
                       Quoted("2"), Quoted("20"))
        v3 == VenteRow(Quoted("3"), Quoted("9"), Quoted("1"), Quoted("2023-08-20"),
                       Quoted("1"), Quoted("10"))
    IN  { Extracts(File(<<c1>>, 0), File(<<p1>>, 0), File(<<v1>>, 0)),
          Extracts(File(<<c1, c2>>, 0), File(<<p1>>, 0), File(<<v1, v2, v3>>, 0)),
          Extracts(File(<<c1>>, 0), File(<<p1>>, 0), Absent) }

EditExtracts ==
    /\ etl_pc = 0
    /\ extracts' \in SmallExtracts \ {extracts}
    /\ UNCHANGED <<warehouse>>
    /\ UNCHANGED etl_vars
    /\ UNCHANGED dash_vars

InitConc ==
    /\ extracts \in SmallExtracts
    /\ InitRest

\* --------------------------------------------------------- specifications
\* The batch pipeline: run_etl once over the extracts, then the dashboard.
Next == RunEtl \/ Main

Spec == Init /\ [][Next]_vars

\* run_etl executions and dashboard reruns interleaved at the grain of one
\* file operation, the extracts changing between the runs.
NextConc == EditExtracts \/ EtlStart \/ EtlWrite \/ MainHit \/ MainMiss \/ DashRead \/ DashMerge

SpecConc == InitConc /\ [][NextConc]_vars

\* ------------------------------------------------------------------ claims
\* The rows the four warehouse files hold.
Written == [f \in DOMAIN warehouse |-> warehouse[f].rows]

InTable(rows, r) == \E j \in DOMAIN rows : rows[j] = r

\* The extracts as read and cleaned (lines 15-28), row i of a frame being what
\* is made of line i of its file.
CleanClients  == clean_quotes(read_csv(extracts.Clients.rows, ClientCols), ClientCols)
CleanProduits == clean_quotes(read_csv(extracts.Produits.rows, ProduitCols), ProduitCols)
CleanVentes   == clean_quotes(read_csv(extracts.Ventes.rows, VenteCols), VenteCols)

\* C1: the cube load_and_merge_data returns from the four written files has
\* exactly as many rows as Fact_Ventes.
C1_CubeCardinality ==
    df.kind = "cube" => Len(df.rows) = Len(warehouse["Fact_Ventes"].rows)

\* C2: when the three selections are the full lists of observed values (and
\* none of the lists is empty, the case of the second half) the filtered subset
\* is the whole cube, and when one of the selections is empty the filtered
\* subset has no row.
C2_FullSelectionKeepsEveryRow ==
    df.kind = "cube" =>
        /\ ( /\ selected.year # {} /\ selected.country # {} /\ selected.category # {}
             /\ selected.year = annees_dispo(df.rows)
             /\ selected.country = pays_dispo(df.rows)
             /\ selected.category = categories_dispo(df.rows) ) => filtered_df = df.rows
        /\ (selected.year = {} \/ selected.country = {} \/ selected.category = {})
              => filtered_df = <<>>

\* C3: a call of load_and_merge_data that st.cache_data answers returns the
\* cube of the warehouse files as they are at that call.
C3_CallReturnsCubeOfCurrentFiles ==
    [][MainHit => df' = load_uncached(warehouse)]_vars

AnyExtractAbsent == \E f \in DOMAIN extracts : ~extracts[f].present

\* C4: a run_etl started while one of the three extracts is absent reports the
\* error and returns, and the warehouse files are after it what they were.
C4_MissingExtractWritesNothing ==
    [][(etl_pc = 0 /\ etl_run' # etl_run /\ AnyExtractAbsent)
          => (etl_pc' = 0 /\ etl_msg' = "error" /\ warehouse' = warehouse)]_vars

\* A run_etl has failed on an absent extract while the warehouse holds the
\* files of an earlier run.
C4_Witness ==
    /\ etl_msg = "error"
    /\ AnyExtractAbsent
    /\ \A f \in DOMAIN warehouse : warehouse[f].present

\* A text of an extract that pd.to_numeric cannot parse, once cleaned.
NumericDefect(t) ==
    /\ ~IsNaText(t)
    /\ ~IsNumText(Strip(RemoveQuotes(t)))
    /\ ~NumericNa(Strip(RemoveQuotes(t)))

\* A text of an extract that pd.to_datetime cannot parse, once cleaned.
DateDefect(t) ==
    /\ ~IsNaText(t)
    /\ ~IsDateText(Strip(RemoveQuotes(t)))
    /\ ~IsNumText(Strip(RemoveQuotes(t)))

NumericColumnsOf(f) ==
    CASE f = "Clients" -> ClientNumeric
      [] f = "Produits" -> ProduitNumeric
      [] f = "Ventes" -> VenteNumeric

\* The lines <<file, i>> of the extracts that hold an unparseable number, and
\* those of Ventes.csv that hold an unparseable date.
NumericDefects ==
    {x \in UNION {{<<f, i>> : i \in DOMAIN extracts[f].rows} : f \in DOMAIN extracts} :
        \E c \in NumericColumnsOf(x[1]) : NumericDefect(extracts[x[1]].rows[x[2]][c])}

DateDefects ==
    {<<"Ventes", i>> : i \in {j \in DOMAIN extracts.Ventes.rows :
                                  DateDefect(extracts.Ventes.rows[j]["date"])}}

\* The extracts without line i of file f.
Without(x, f, i) == [x EXCEPT ![f].rows = Pick(@, DOMAIN @ \ {i})]

\* The values of the tables, a number being the same value as "1" and as "1.0".
Canon(t) == IF IsNumText(t) THEN <<t[1]>> ELSE t

Values(tables) ==
    [f \in DOMAIN tables |->
        [j \in DOMAIN tables[f] |->
            [c \in DOMAIN tables[f][j] |-> Canon(tables[f][j][c])]]]

\* C5: when one line of the extracts holds a value that fails to parse (a
\* date or a number), run_etl completes and writes the tables of the other
\* lines.
C5_ParseDefectDropsOnlyTheRow ==
    etl_run = 1 =>
        \A x \in NumericDefects \cup DateDefects :
            NumericDefects \cup DateDefects = {x} =>
                /\ etl_msg = "ok"
                /\ Values(Written) = Values(EtlResult(Without(extracts, x[1], x[2])).tables)

KeysUnique(rows, key) ==
    \A i, j \in DOMAIN rows : i # j => rows[i][key] # rows[j][key]

\* C6: after a completed run_etl no two rows of Dim_Clients hold the same
\* client_id and no two rows of Dim_Produits the same produit_id.
C6_DimensionKeysUnique ==
    etl_msg = "ok" =>
        /\ KeysUnique(warehouse["Dim_Clients"].rows, "client_id")
        /\ KeysUnique(warehouse["Dim_Produits"].rows, "produit_id")

\* C7: the four files load_and_merge_data has read when it merges were all
\* written by the same run_etl execution.
C7_NoPartialWriteVisible ==
    dash_pc = 5 =>
        \A f, g \in DOMAIN dash_read : dash_read[f].run = dash_read[g].run

HasMissingField(row) == \E c \in DOMAIN row : IsNaText(row[c])

\* What lines 15-47 and 70 make of each line of an extract, as to_csv writes
\* it, no line being dropped: row i comes from line i.
ClientImages ==
    to_csv(replace_pays(to_numeric_all(CleanClients, ClientNumeric)), ClientCols)
ProduitImages ==
    to_csv(to_numeric_all(CleanProduits, ProduitNumeric), ProduitCols)
VenteImages ==
    to_csv(to_datetime(to_numeric_all(CleanVentes, VenteNumeric), "date"), VenteCols)

\* C8: no row of Dim_Clients, Dim_Produits or Fact_Ventes comes from a line of
\* an extract in which a field is missing.
C8_NoRowWithMissingField ==
    etl_msg = "ok" =>
        /\ \A i \in DOMAIN extracts.Clients.rows :
              HasMissingField(extracts.Clients.rows[i])
                  => ~InTable(warehouse["Dim_Clients"].rows, ClientImages[i])
        /\ \A i \in DOMAIN extracts.Produits.rows :
              HasMissingField(extracts.Produits.rows[i])
                  => ~InTable(warehouse["Dim_Produits"].rows, ProduitImages[i])
        /\ \A i \in DOMAIN extracts.Ventes.rows :
              HasMissingField(extracts.Ventes.rows[i])
                  => ~InTable(warehouse["Fact_Ventes"].rows, VenteImages[i])

Aliases == {<<"États-Unis">>, <<"United States">>, <<"US">>}

Canonical(pays) == IF pays \in Aliases THEN <<"USA">> ELSE pays

\* A cleaned client row that dropna keeps: every field is there and the
\* client_id is a number.
Survives(r) ==
    /\ \A c \in DOMAIN r : r[c].k = "str"
    /\ IsNumText(r["client_id"].s)

\* Row o of Dim_Clients is the cleaned client row r with its country canonical.
SameClient(o, r) ==
    /\ ParseNum(o["client_id"]) = ParseNum(r["client_id"].s)
    /\ o["nom"] = r["nom"].s
    /\ o["ville"] = r["ville"].s
    /\ o["segment"] = r["segment"].s
    /\ o["pays"] = Canonical(r["pays"].s)

\* C9: after run_etl none of the three alias spellings is in the pays column
\* of Dim_Clients; every client row kept is in Dim_Clients with "USA" for an
\* alias and its own country value otherwise, and Dim_Clients holds no other row.
C9_CountryNormalised ==
    etl_msg = "ok" =>
        LET dim == warehouse["Dim_Clients"].rows
        IN  /\ \A j \in DOMAIN dim : dim[j]["pays"] \notin Aliases
            /\ \A i \in DOMAIN CleanClients :
                  Survives(CleanClients[i])
                      => \E j \in DOMAIN dim : SameClient(dim[j], CleanClients[i])
            /\ \A j \in DOMAIN dim :
                  \E i \in DOMAIN CleanClients :
                      Survives(CleanClients[i]) /\ SameClient(dim[j], CleanClients[i])

\* run_etl has completed on a client whose cleaned country is an alias, and
\* Dim_Clients holds "USA".
C9_Witness ==
    /\ etl_msg = "ok"
    /\ \E i \in DOMAIN CleanClients :
          Survives(CleanClients[i]) /\ CleanClients[i]["pays"].s \in Aliases
    /\ \E j \in DOMAIN warehouse["Dim_Clients"].rows :
          warehouse["Dim_Clients"].rows[j]["pays"] = <<"USA">>

\* The extracts with line i of file f appended once more.
WithDuplicate(x, f, i) == [x EXCEPT ![f].rows = Append(@, @[i])]

\* C10: run_etl on the extracts with any one line appended a second time ends
\* the way it ended on the extracts and writes the same four tables.
C10_DuplicateRowNoEffect ==
    etl_run = 1 =>
        \A f \in DOMAIN extracts : \A i \in DOMAIN extracts[f].rows :
            LET twice == EtlResult(WithDuplicate(extracts, f, i))
            IN  /\ twice.ok = (etl_msg = "ok")
                /\ etl_msg = "ok" => twice.tables = Written

\* run_etl has completed on an extract that holds the same line twice, and has
\* written one row for the two.
C10_Witness ==
    /\ etl_msg = "ok"
    /\ \E i, j \in DOMAIN extracts.Ventes.rows :
          i # j /\ extracts.Ventes.rows[i] = extracts.Ventes.rows[j]
    /\ Len(warehouse["Fact_Ventes"].rows) = 1

====
